---- MODULE Spec2Model ----
(***************************************************************************)
(* Model of the storefront's request handlers (products/views.py) over the *)
(* persisted rows of products/models.py.  Every handler is one action: a   *)
(* request runs to completion before the next one starts.  The payment     *)
(* gateway, the mail backend and the SMS provider are opaque: each call's  *)
(* outcome is an input of the request.                                     *)
(***************************************************************************)
EXTENDS Integers, Sequences, FiniteSets, TLC

\* ------------------------------------------------------------------ bounds
MaxOrders == 2
MaxGatewayOrders == 1
MaxAddresses == 1
\* Requests in flight at the same time, and the Address rows of the
\* specifications that run Address.save statement by statement.
MaxWorkers == 2
MaxAddressRows == 2
\* CartItem primary keys handed out by the requests run statement by statement.
MaxCartItemRows == 3

\* ------------------------------------------------------------------ data
Users == {"u1", "u2"}
Sarees == {"s1", "s2"}
PaymentIds == {"pay_A", "pay_B"}

\* Users that go through address selection and checkout in the bounded model;
\* every user of Users has a cart and may post payment callbacks.
Shoppers == {"u1"}

NoAddress == 0
NoProduct == "none"
NoPayment == "none"
UnknownGatewayOrder == 0

\* Saree.price (a PositiveIntegerField): the two catalogue rows of the model.
price(s) == IF s = "s1" THEN 1500 ELSE 2200

\* User.email as stored by signup_view: u1 signed up with an address, u2 with
\* an empty one.
email(u) == IF u = "u1" THEN "u1@example.com" ELSE ""

\* UserProfile.mobile_number as stored by signup_view.
mobile_number(u) == IF u = "u1" THEN "9000000001" ELSE ""

\* The signature the gateway issues for an order id / payment id pair; the
\* client's verify_payment_signature recomputes it from the shared secret.
HMAC(order_id, payment_id) == <<order_id, payment_id>>
NoSignature == <<0, "none">>
ForgedSignature == <<0, "forged">>

GatewayOrderIds == 1..MaxGatewayOrders

\* The order ids a callback may carry: those the gateway issued and one it did not.
CallbackOrderIds == {UnknownGatewayOrder} \cup GatewayOrderIds

VARIABLES
    orders,             \* Order rows, indexed by id (a sequence: rows are never deleted)
    addresses,          \* Address rows: a set of [id, user, is_default]
    carts,              \* users that have a Cart row
    cartItems,          \* CartItem rows: user -> the sarees in that user's cart, in
                        \* primary-key order (one row per saree, quantity 1)
    session,            \* per user: selected_address_id and product_id
    settings,           \* ADMIN_EMAIL / ADMIN_PHONE set or empty, ENABLE_SMS
    nextAddressId,      \* next Address primary key
    nextGatewayOrderId, \* next id the gateway allocates in order.create
    last,               \* the last request and what it did (its response, its writes,
                        \* the notifications it attempted)
    settled,            \* per gateway order id: the latest settlement that returned
                        \* the success view
    callbacks,          \* per worker: a payment_complete request run statement by
                        \* statement (its position, what it read and what it did)
    saves,              \* per worker: an Address.save run statement by statement
    dispatch,           \* the SMS code called on its own: its inputs and its result
    cartTable,          \* the Cart table row by row: a set of [id, user]
    itemTable,          \* the CartItem table row by row: [id, saree, quantity, cart]
    nextPk,             \* next primary key of the Cart and of the CartItem table
    adds,               \* per worker: an add_to_cart request run statement by statement
    checkouts,          \* per worker: a process_checkout_payment request run
                        \* statement by statement
    gateway             \* the amount in paise of each order the gateway created

\* The cart tables as the requests run statement by statement see them.
cartState == <<cartTable, itemTable, nextPk, adds>>

\* The requests in flight and the SMS code called on its own; the views that
\* run to completion leave them alone.
threads == <<callbacks, saves, dispatch, cartState, checkouts, gateway>>

vars == <<orders, addresses, carts, cartItems, session, settings,
          nextAddressId, nextGatewayOrderId, last, settled, threads>>

\* ------------------------------------------------------------------ helpers
Min(S) == CHOOSE x \in S : \A y \in S : x <= y

RECURSIVE SortedSeq(_)
\* The rows of a queryset in primary-key order, as SQLite returns them.
SortedSeq(S) == IF S = {} THEN <<>> ELSE <<Min(S)>> \o SortedSeq(S \ {Min(S)})

\* The total that counts the first row of the group only.
SumAmounts_first(ords, ids) == IF ids = {} THEN 0 ELSE ords[Min(ids)].amount

RECURSIVE SumAmounts(_, _)
\* Line 168: sum(o.amount for o in orders).
SumAmounts(ords, ids) ==
    IF ids = {} THEN 0
    ELSE LET i == Min(ids) IN ords[i].amount + SumAmounts(ords, ids \ {i})

Prefix(seq, n) == {seq[k] : k \in 1..n}

\* ------------------------------------------------------------------ requests
\* What a request leaves behind for the properties: the view, its inputs, its
\* response and, for payment_complete, the rows it found and saved and the
\* notifications it attempted.
Request(view, u, resp) ==
    [order_id |-> UnknownGatewayOrder, payment_id |-> NoPayment,
     view |-> view, resp |-> resp, user |-> u, method |-> "POST",
     signature |-> NoSignature, clientFault |-> FALSE, saveFault |-> FALSE,
     matched |-> {}, writes |-> {}, attempts |-> {},
     failed |-> {}, mode |-> "ok", total_amount |-> 0,
     replay |-> FALSE, deleted |-> 0]

\* ------------------------------------------------------------------ notification dispatch
\* A notification is <<kind, order id>>; the admin messages of a group carry 0.
AdminEmail == <<"admin_email", 0>>
AdminEmailUtil == <<"admin_email_util", 0>>
AdminSms == <<"admin_sms", 0>>
CustomerEmail(i) == <<"customer_email", i>>
CustomerEmailUtil(i) == <<"customer_email_util", i>>
CustomerSms(i) == <<"customer_sms", i>>

AllNotifications(ids) ==
    {AdminEmail, AdminEmailUtil, AdminSms}
      \cup {CustomerEmail(i) : i \in ids}
      \cup {CustomerEmailUtil(i) : i \in ids}
      \cup {CustomerSms(i) : i \in ids}

\* The metadata fetch of lines 152-159, as a member of a set of failing calls.
PaymentFetch == <<"payment_fetch", 0>>

AdminEmails == {AdminEmail, AdminEmailUtil}
OrderMessages(i) == {CustomerEmail(i), CustomerEmailUtil(i), CustomerSms(i)}

\* The outcomes of the outbound calls a settlement is run against: the set of
\* calls that fail.  Nothing fails; the metadata fetch fails; the admin emails
\* fail; the messages of one order fail; every call fails.
FailureChoices(ids) ==
    {{}, {PaymentFetch}, AdminEmails, AllNotifications(ids) \cup {PaymentFetch}}
      \cup {OrderMessages(i) : i \in ids}

\* A failing dispatch either reports failure ("fail") or raises ("raise").
FailureModes == {"fail", "raise"}

Outcome(n, F, mode) == IF n \in F THEN mode ELSE "ok"

\* The result of a block of statements: the notifications it attempted and
\* whether an exception left it.
Nothing == [att |-> {}, raised |-> FALSE]
Attempt(n, result) == [att |-> {n}, raised |-> result = "Raise"]
\* try: block / except Exception: log
Try(block) == [block EXCEPT !.raised = FALSE]
\* first; second -- second runs only if no exception left first
Then(first, second) ==
    IF first.raised THEN first
    ELSE [att |-> first.att \cup second.att, raised |-> second.raised]

\* _send_email without its try/except: an exception of send_mail reaches the caller.
_send_email_unguarded(outcome) == IF outcome = "raise" THEN "Raise" ELSE "True"

\* views._send_email: send_mail inside try/except; True unless send_mail raised.
_send_email(outcome) == IF outcome = "raise" THEN "False" ELSE "True"

\* email_utils.send_order_notification_to_admin: the whole body is in a try.
send_order_notification_to_admin(outcome) ==
    IF outcome = "ok" THEN "True" ELSE "False"

\* email_utils.send_order_confirmation_to_customer: returns False without
\* sending when the buyer has no email; the rest is in a try.
send_order_confirmation_to_customer(o, F, mode) ==
    IF o.user = "none" \/ email(o.user) = "" THEN Nothing
    ELSE Attempt(CustomerEmailUtil(o.id),
                 IF Outcome(CustomerEmailUtil(o.id), F, mode) = "ok"
                 THEN "True" ELSE "False")

\* settings.py lines 83-85: which of TWILIO_ACCOUNT_SID, TWILIO_AUTH_TOKEN and
\* TWILIO_PHONE_NUMBER are set (each is "" when its environment variable is not).
Credentials == [sid : BOOLEAN, token : BOOLEAN, from_num : BOOLEAN]
AllCredentials == [sid |-> TRUE, token |-> TRUE, from_num |-> TRUE]
NoCredentials == [sid |-> FALSE, token |-> FALSE, from_num |-> FALSE]

\* What a dispatcher hands back: its return value ("Raise" for an exception
\* that reaches the caller) and whether the provider was contacted.
Dispatched(result, contacted) == [result |-> result, contacted |-> contacted]

\* client.messages.create: provider is "ok" or "raise".
messages_create(provider) ==
    Dispatched(IF provider = "ok" THEN "True" ELSE "Raise", TRUE)

\* sms_utils.send_sms, lines 16-44: _twilio_client raises ValueError without
\* sid or token, send_sms raises it without a sender number; both except
\* clauses return False.
send_sms(creds, provider) ==
    IF ~(creds.sid /\ creds.token) \/ ~creds.from_num
    THEN Dispatched("False", FALSE)
    ELSE Dispatched(IF messages_create(provider).result = "True" THEN "True" ELSE "False",
                  TRUE)

\* _send_sms with its try/except taken away.
_send_sms_unguarded(flag, util, creds, provider) ==
    IF ~flag THEN Dispatched("False", FALSE)
    ELSE IF util THEN send_sms(creds, provider)
    ELSE IF ~(creds.sid /\ creds.token /\ creds.from_num) THEN Dispatched("False", FALSE)
    ELSE messages_create(provider)

\* views._send_sms, lines 37-67: False when ENABLE_SMS is off; bool(send_sms(..))
\* when sms_utils was imported (util); else the direct Twilio call, refused
\* without credentials.  Everything is inside one try/except that returns False.
_send_sms(flag, util, creds, provider) ==
    IF ~flag THEN Dispatched("False", FALSE)
    ELSE IF util THEN send_sms(creds, provider)
    ELSE IF ~(creds.sid /\ creds.token /\ creds.from_num) THEN Dispatched("False", FALSE)
    ELSE Dispatched(IF messages_create(provider).result = "True" THEN "True" ELSE "False",
                  TRUE)

\* The SMS call of a settlement whose outcome is "ok", "fail" or "raise": it
\* succeeds, it finds no credentials, or the provider raises.
SmsResult(cfg, outcome) ==
    _send_sms(cfg.ENABLE_SMS, TRUE,
              IF outcome = "fail" THEN NoCredentials ELSE AllCredentials,
              IF outcome = "raise" THEN "raise" ELSE "ok").result

\* getattr(o.user, 'profile', None): UserProfile.user declares no related_name,
\* so a User has the attribute userprofile and never an attribute profile.
UserProfileAttr(u) == "none"

\* The phone a customer SMS goes to (views.py line 314): the delivery
\* address's phone, else the mobile number of o.user.profile; "" if neither.
\* add_address and edit_address refuse an empty phone, so an Address row has one.
CustomerPhone(o) ==
    IF o.delivery_address # NoAddress THEN "address_phone"
    ELSE IF o.user # "none" /\ UserProfileAttr(o.user) # "none"
         THEN mobile_number(o.user)
         ELSE ""

\* Lines 175-215: the inline admin email.
AdminEmailBlock(cfg, F, mode) ==
    Try(IF cfg.ADMIN_EMAIL
        THEN Attempt(AdminEmail, _send_email(Outcome(AdminEmail, F, mode)))
        ELSE Nothing)

\* Lines 218-225: the admin email of email_utils.
AdminEmailUtilBlock(F, mode) ==
    Try(Try(Attempt(AdminEmailUtil,
                    send_order_notification_to_admin(Outcome(AdminEmailUtil, F, mode)))))

\* Lines 231-289: the body of the customer email loop for one order.
CustomerEmailBlock(o, F, mode) ==
    Try(Then(IF o.user # "none" /\ email(o.user) # ""
             THEN Attempt(CustomerEmail(o.id),
                          _send_email(Outcome(CustomerEmail(o.id), F, mode)))
             ELSE Nothing,
             Try(send_order_confirmation_to_customer(o, F, mode))))

RECURSIVE CustomerEmailLoop(_, _, _, _)
\* Lines 230-289: for o in orders.
CustomerEmailLoop(seq, ords, F, mode) ==
    IF seq = <<>> THEN Nothing
    ELSE Then(CustomerEmailBlock(ords[Head(seq)], F, mode),
              CustomerEmailLoop(Tail(seq), ords, F, mode))

\* Lines 297-308: the admin SMS.
AdminSmsBlock(cfg, F, mode) ==
    Try(IF cfg.ADMIN_PHONE
        THEN Attempt(AdminSms, SmsResult(cfg, Outcome(AdminSms, F, mode)))
        ELSE Nothing)

\* Lines 312-325: the body of the customer SMS loop for one order.
CustomerSmsBlock(o, cfg, F, mode) ==
    Try(IF CustomerPhone(o) = "" THEN Nothing
        ELSE Attempt(CustomerSms(o.id),
                     SmsResult(cfg, Outcome(CustomerSms(o.id), F, mode))))

RECURSIVE CustomerSmsLoop(_, _, _, _, _)
\* Lines 311-325: for o in orders.
CustomerSmsLoop(seq, ords, cfg, F, mode) ==
    IF seq = <<>> THEN Nothing
    ELSE Then(CustomerSmsBlock(ords[Head(seq)], cfg, F, mode),
              CustomerSmsLoop(Tail(seq), ords, cfg, F, mode))

\* Lines 294-327: the SMS section, skipped as a whole when ENABLE_SMS is off.
SmsSection(seq, ords, cfg, F, mode) ==
    Try(IF cfg.ENABLE_SMS
        THEN Then(AdminSmsBlock(cfg, F, mode),
                  CustomerSmsLoop(seq, ords, cfg, F, mode))
        ELSE Nothing)

\* Lines 172-327: the notification fan-out of payment_complete.
Notify(seq, ords, cfg, F, mode) ==
    Then(AdminEmailBlock(cfg, F, mode),
    Then(AdminEmailUtilBlock(F, mode),
    Then(CustomerEmailLoop(seq, ords, F, mode),
         SmsSection(seq, ords, cfg, F, mode))))

\* The metadata fetch outside its try/except.
Enrich_unguarded(payment_id, F) ==
    [raised |-> PaymentFetch \in F,
     info |-> payment_id # NoPayment /\ PaymentFetch \notin F]

\* Lines 152-159: the payment metadata fetch; a failure leaves payment_info None.
\* The result says whether an exception left the block.
Enrich(payment_id, F) ==
    [raised |-> FALSE, info |-> payment_id # NoPayment /\ PaymentFetch \notin F]

\* ------------------------------------------------------------------ settlement
\* The lookup without its filter: Order.objects.all().
Lookup_unfiltered(ords, order_id) == DOMAIN ords

\* The lookup that leaves out the rows already paid.
Lookup_unpaid_only(ords, order_id) ==
    {i \in DOMAIN ords : ords[i].razorpay_order_id = order_id /\ ~ords[i].paid}

\* Line 127: Order.objects.filter(razorpay_order_id=order_id).
Lookup(ords, order_id) == {i \in DOMAIN ords : ords[i].razorpay_order_id = order_id}

\* The signature check with a fault of the client swallowed.
verify_ignores_client_error(order_id, payment_id, signature, clientFault) ==
    signature = HMAC(order_id, payment_id)

\* The signature check that only requires the call to return.
verify_accepts_any(order_id, payment_id, signature, clientFault) ==
    ~clientFault

\* Lines 138-143: client.utility.verify_payment_signature raises on a
\* signature that is not the one of the pair, or for a fault of its own.
verify_payment_signature(order_id, payment_id, signature, clientFault) ==
    ~clientFault /\ signature = HMAC(order_id, payment_id)

\* A pass of the commit loop that sets the flag and leaves the ids null.
MarkPaid_flag_only(o, payment_id, signature) == [o EXCEPT !.paid = TRUE]

\* Lines 147-150: the fields one pass of the commit loop saves.
MarkPaid(o, payment_id, signature) ==
    [o EXCEPT !.paid = TRUE,
              !.razorpay_payment_id = payment_id,
              !.razorpay_signature = signature]

\* The commit loop that returns after its first pass.
Commit_first_only(ords, seq, payment_id, signature, failAt) ==
    LET saved == IF failAt = 1 THEN {} ELSE Prefix(seq, 1)
    IN  [raised |-> failAt # 0,
         saved |-> saved,
         rows |-> [i \in DOMAIN ords |->
                     IF i \in saved THEN MarkPaid(ords[i], payment_id, signature)
                     ELSE ords[i]]]

\* The commit loop that skips the rows that are already paid.
Commit_skip_paid(ords, seq, payment_id, signature, failAt) ==
    LET reach == IF failAt = 0 THEN Prefix(seq, Len(seq)) ELSE Prefix(seq, failAt - 1)
        saved == {i \in reach : ~ords[i].paid}
    IN  [raised |-> failAt # 0,
         saved |-> saved,
         rows |-> [i \in DOMAIN ords |->
                     IF i \in saved THEN MarkPaid(ords[i], payment_id, signature)
                     ELSE ords[i]]]

\* Lines 146-150: the commit loop.  Each o.save() is committed on its own
\* (the view opens no transaction); failAt is the position of the row whose
\* save raises, 0 if none does.
Commit(ords, seq, payment_id, signature, failAt) ==
    LET saved == IF failAt = 0 THEN Prefix(seq, Len(seq)) ELSE Prefix(seq, failAt - 1)
    IN  [raised |-> failAt # 0,
         saved |-> saved,
         rows |-> [i \in DOMAIN ords |->
                     IF i \in saved THEN MarkPaid(ords[i], payment_id, signature)
                     ELSE ords[i]]]

\* The cart step that deletes nothing.
ClearCart_nothing(items, cartRows, u) == items

\* The cart step that deletes the CartItem rows of every cart.
ClearCart_every(items, cartRows, u) == [v \in DOMAIN items |-> <<>>]

\* Lines 332-337: delete the CartItem rows of the requesting user's cart.
ClearCart(items, cartRows, u) ==
    IF u \in cartRows THEN [items EXCEPT ![u] = <<>>] ELSE items

\* ------------------------------------------------------------------ initial state
\* settings.py lines 79-102: ADMIN_EMAIL and ADMIN_PHONE come from the
\* environment and may be empty; ENABLE_SMS is read with a default of False.
\* The deployment is either fully configured or left at these defaults.
Configurations ==
    {[ENABLE_SMS |-> TRUE, ADMIN_EMAIL |-> TRUE, ADMIN_PHONE |-> TRUE],
     [ENABLE_SMS |-> FALSE, ADMIN_EMAIL |-> FALSE, ADMIN_PHONE |-> FALSE]}

NotSettled ==
    [payment_id |-> NoPayment, signature |-> NoSignature, attempts |-> {}, rows |-> {}]

Workers == 1..MaxWorkers

\* A worker that serves no payment_complete request.
IdleCallback ==
    [order_id |-> UnknownGatewayOrder, payment_id |-> NoPayment, resp |-> "none",
     user |-> "none", signature |-> NoSignature, attempts |-> {}, saved |-> {},
     pc |-> "idle", found |-> <<>>, raced |-> FALSE]

\* A worker that serves no address request.
IdleSave ==
    [user |-> "none", id |-> NoAddress, pc |-> "idle", raced |-> FALSE,
     is_default |-> FALSE]

NoCart == 0

\* A worker that serves no add_to_cart request.
IdleAdd ==
    [resp |-> "none", user |-> "none", pc |-> "idle", saree |-> NoProduct,
     cart |-> NoCart, via |-> "none"]

\* A worker that serves no process_checkout_payment request.
IdleCheckout ==
    [order_id |-> UnknownGatewayOrder, user |-> "none", total_amount |-> 0,
     pc |-> "idle", address |-> NoAddress]

\* The SMS code has not been called.
NoDispatch ==
    [user |-> "none", mode |-> "fail", att |-> {}, raised |-> FALSE,
     result |-> "none", contacted |-> FALSE, provider |-> "ok",
     creds |-> NoCredentials, flag |-> FALSE, util |-> FALSE,
     cfg |-> [ENABLE_SMS |-> FALSE, ADMIN_EMAIL |-> FALSE, ADMIN_PHONE |-> FALSE],
     ran |-> "none", group |-> <<>>, failing |-> {}]

Init ==
    /\ orders = <<>>
    /\ addresses = {}
    /\ carts = {}
    /\ cartItems = [u \in Users |-> <<>>]
    /\ session = [u \in Users |-> [selected_address_id |-> NoAddress, product_id |-> NoProduct]]
    /\ settings \in Configurations
    /\ nextAddressId = 1
    /\ nextGatewayOrderId = 1
    /\ last = Request("none", "none", "none")
    /\ settled = [g \in CallbackOrderIds |-> NotSettled]
    /\ callbacks = [w \in Workers |-> IdleCallback]
    /\ saves = [w \in Workers |-> IdleSave]
    /\ dispatch = NoDispatch
    /\ cartTable = {}
    /\ itemTable = {}
    /\ nextPk = [cart |-> 1, item |-> 1]
    /\ adds = [w \in Workers |-> IdleAdd]
    /\ checkouts = [w \in Workers |-> IdleCheckout]
    /\ gateway = <<>>

\* ------------------------------------------------------------------ payment_complete
\* The delivery addresses of a group's rows, as a settlement found them.
GroupRows(ords, ids) == {<<i, ords[i].delivery_address>> : i \in ids}

\* The settlement that sends its notifications whether or not the commit
\* loop has gone through.
Settlement_notify_always(ords, cfg, ids, payment_id, signature, failAt, F, mode) ==
    LET seq == SortedSeq(ids)
        c == Commit(ords, seq, payment_id, signature, failAt)
        n == Notify(seq, c.rows, cfg, F, mode)
    IN  [saveFault |-> c.raised, attempts |-> n.att, saved |-> c.saved,
         rows |-> c.rows, done |-> ~c.raised /\ ~n.raised]

\* Lines 145-342: the part of payment_complete after the signature check, run
\* against the given faults: the rows as committed, the notifications attempted
\* and whether the view reached its response.
Settlement(ords, cfg, ids, payment_id, signature, failAt, F, mode) ==
    LET seq == SortedSeq(ids)
        c == Commit(ords, seq, payment_id, signature, failAt)
        enr == IF c.raised THEN [raised |-> FALSE, info |-> FALSE]
               ELSE Enrich(payment_id, F)
        reached == ~c.raised /\ ~enr.raised
        n == IF reached THEN Notify(seq, c.rows, cfg, F, mode) ELSE Nothing
    IN  [saveFault |-> c.raised, attempts |-> n.att, saved |-> c.saved,
         rows |-> c.rows, done |-> reached /\ ~n.raised]

Settle(u, order_id, payment_id, signature, clientFault, failAt, F, mode) ==
    \E ids \in {Lookup(orders, order_id)} :
    \E r \in {Settlement(orders, settings, ids, payment_id, signature, failAt, F, mode)} :
    \E failed \in {IF r.saveFault THEN {} ELSE F \cap (r.attempts \cup {PaymentFetch})} :
        /\ orders' = r.rows
        /\ cartItems' = IF r.done THEN ClearCart(cartItems, carts, u) ELSE cartItems
        /\ last' = [Request("payment_complete", u,
                            IF r.done THEN "thankyou.html" ELSE "error:500")
                      EXCEPT !.order_id = order_id, !.payment_id = payment_id,
                             !.signature = signature, !.clientFault = clientFault,
                             !.saveFault = r.saveFault,
                             !.matched = ids, !.writes = r.saved,
                             !.attempts = r.attempts, !.failed = failed,
                             !.mode = IF failed \subseteq {PaymentFetch} THEN "ok" ELSE mode,
                             !.total_amount = IF r.done THEN SumAmounts(r.rows, ids) ELSE 0,
                             !.deleted = IF r.done /\ u \in carts
                                         THEN Len(cartItems[u]) ELSE 0,
                             !.replay = /\ settled[order_id].rows # {}
                                        /\ settled[order_id].payment_id = payment_id
                                        /\ settled[order_id].signature = signature]
        /\ settled' = IF r.done
                      THEN [settled EXCEPT ![order_id] =
                              [payment_id |-> payment_id, signature |-> signature,
                               attempts |-> r.attempts, rows |-> GroupRows(r.rows, ids)]]
                      ELSE settled
        /\ UNCHANGED <<threads, addresses, carts, session, settings, nextAddressId,
                       nextGatewayOrderId>>

\* The early return that also empties every cart.
Respond_clearing(request) ==
    /\ last' = request
    /\ cartItems' = [v \in DOMAIN cartItems |-> <<>>]
    /\ UNCHANGED <<threads, orders, addresses, carts, session, settings,
                   nextAddressId, nextGatewayOrderId, settled>>

\* A request that changes nothing but the record of the last request.
Respond(request) ==
    /\ last' = request
    /\ UNCHANGED <<threads, orders, addresses, carts, cartItems, session, settings,
                   nextAddressId, nextGatewayOrderId, settled>>

\* Lines 115-143: the method check, the lookup and the signature check; the
\* view is behind login_required, so u is an authenticated user.  faults says
\* whether the outbound calls of the settlement may fail.
payment_complete(u, faults) ==
    \/ Respond([Request("payment_complete", u, "redirect:shop") EXCEPT !.method = "GET"])
    \/ \E order_id \in CallbackOrderIds,
          payment_id \in PaymentIds :
        \E signature \in {HMAC(order_id, payment_id), ForgedSignature},
           ids \in {Lookup(orders, order_id)} :
          IF ids = {}
          THEN Respond([Request("payment_complete", u, "payment_failed.html")
                          EXCEPT !.order_id = order_id, !.payment_id = payment_id,
                                 !.signature = signature])
          ELSE \E clientFault \in BOOLEAN :
            IF ~verify_payment_signature(order_id, payment_id, signature, clientFault)
            THEN Respond([Request("payment_complete", u, "payment_failed.html")
                            EXCEPT !.order_id = order_id, !.payment_id = payment_id,
                                   !.signature = signature,
                                   !.clientFault = clientFault, !.matched = ids])
            ELSE \/ \E failAt \in 1..Cardinality(ids) :
                      Settle(u, order_id, payment_id, signature, clientFault, failAt, {}, "ok")
                 \/ \E F \in IF faults THEN FailureChoices(ids) ELSE {{}} :
                    \E mode \in IF F \subseteq {PaymentFetch} THEN {"ok"} ELSE FailureModes :
                      Settle(u, order_id, payment_id, signature, clientFault, 0, F, mode)

\* ------------------------------------------------------------------ cart views
Range(seq) == {seq[k] : k \in DOMAIN seq}

Without(seq, s) == SelectSeq(seq, LAMBDA x : x # s)

\* Lines 345-356: cart_view creates the user's Cart row if it is missing.
cart_view(u) ==
    /\ carts' = carts \cup {u}
    /\ last' = Request("cart_view", u, "cart.html")
    /\ UNCHANGED <<threads, orders, addresses, cartItems, session, settings,
                   nextAddressId, nextGatewayOrderId, settled>>

\* Lines 359-392: get_or_create of the Cart and of the (cart, saree) CartItem.
add_to_cart(u) ==
    \E s \in Sarees :
        /\ carts' = carts \cup {u}
        /\ cartItems' = IF s \in Range(cartItems[u]) THEN cartItems
                        ELSE [cartItems EXCEPT ![u] = Append(@, s)]
        /\ last' = Request("add_to_cart", u,
                           IF s \in Range(cartItems[u]) THEN "already_in_cart" ELSE "added")
        /\ UNCHANGED <<threads, orders, addresses, session, settings,
                       nextAddressId, nextGatewayOrderId, settled>>

\* Lines 395-411: the CartItem is looked up by id among the requester's own
\* items (404 otherwise) and deleted.
remove_from_cart(u) ==
    \E owner \in Users, s \in Sarees :
        IF owner = u /\ s \in Range(cartItems[u])
        THEN /\ cartItems' = [cartItems EXCEPT ![u] = Without(@, s)]
             /\ last' = Request("remove_from_cart", u, "removed")
             /\ UNCHANGED <<threads, orders, addresses, carts, session, settings,
                            nextAddressId, nextGatewayOrderId, settled>>
        ELSE /\ last' = Request("remove_from_cart", u, "error:404")
             /\ UNCHANGED <<threads, orders, addresses, carts, cartItems, session, settings,
                            nextAddressId, nextGatewayOrderId, settled>>

\* Lines 419-427.
clear_cart_after_payment(u) ==
    /\ cartItems' = ClearCart(cartItems, carts, u)
    /\ last' = Request("clear_cart_after_payment", u, "redirect:profile")
    /\ UNCHANGED <<threads, orders, addresses, carts, session, settings,
                   nextAddressId, nextGatewayOrderId, settled>>

\* ------------------------------------------------------------------ address views
\* The address lookup without its user filter.
OwnAddress_any(rows, u, address_id) ==
    \E a \in rows : a.id = address_id

\* get_object_or_404(Address, id=address_id, user=request.user) finds a row.
OwnAddress(rows, u, address_id) ==
    \E a \in rows : a.id = address_id /\ a.user = u

\* An unset that updates no row.
UnsetDefaults_nothing(rows, u) == rows

\* models.py line 42:
\* Address.objects.filter(user=self.user, is_default=True).update(is_default=False)
UnsetDefaults(rows, u) ==
    {IF r.user = u /\ r.is_default THEN [r EXCEPT !.is_default = FALSE] ELSE r : r \in rows}

\* A write that unsets the user's other defaults in the same statement.
WriteRow_exclusive(rows, a) ==
    {r \in (IF a.is_default THEN UnsetDefaults(rows, a.user) ELSE rows) : r.id # a.id}
      \cup {a}

\* models.py line 43, super().save(): the row with this primary key is
\* updated, or inserted when there is none.
WriteRow(rows, a) == {r \in rows : r.id # a.id} \cup {a}

\* models.py lines 39-43, Address.save: a default address first unsets every
\* default of its user, then the row is written.
AddressSave(rows, a) ==
    WriteRow(IF a.is_default THEN UnsetDefaults(rows, a.user) ELSE rows, a)

\* Lines 576-621: valid says whether every required field was filled in.
add_address(u) ==
    \E method \in {"GET", "POST"}, valid \in BOOLEAN, is_default \in BOOLEAN :
        IF method = "POST" /\ valid
        THEN /\ nextAddressId <= MaxAddresses
             /\ addresses' = AddressSave(addresses,
                                [user |-> u, id |-> nextAddressId, is_default |-> is_default])
             /\ nextAddressId' = nextAddressId + 1
             /\ last' = Request("add_address", u, "redirect:manage_addresses")
             /\ UNCHANGED <<threads, orders, carts, cartItems, session, settings,
                            nextGatewayOrderId, settled>>
        ELSE /\ last' = [Request("add_address", u, "add_address.html")
                           EXCEPT !.method = method]
             /\ UNCHANGED <<threads, orders, addresses, carts, cartItems, session, settings,
                            nextAddressId, nextGatewayOrderId, settled>>

\* Lines 631-657.
edit_address(u) ==
    \E address_id \in 1..MaxAddresses, method \in {"GET", "POST"},
       valid \in BOOLEAN, is_default \in BOOLEAN :
        IF ~OwnAddress(addresses, u, address_id)
        THEN /\ last' = Request("edit_address", u, "error:404")
             /\ UNCHANGED <<threads, orders, addresses, carts, cartItems, session, settings,
                            nextAddressId, nextGatewayOrderId, settled>>
        ELSE IF method = "POST" /\ valid
        THEN /\ addresses' = AddressSave(addresses,
                                [user |-> u, id |-> address_id, is_default |-> is_default])
             /\ last' = Request("edit_address", u, "redirect:manage_addresses")
             /\ UNCHANGED <<threads, orders, carts, cartItems, session, settings,
                            nextAddressId, nextGatewayOrderId, settled>>
        ELSE /\ last' = [Request("edit_address", u, "edit_address.html")
                           EXCEPT !.method = method]
             /\ UNCHANGED <<threads, orders, addresses, carts, cartItems, session, settings,
                            nextAddressId, nextGatewayOrderId, settled>>

\* models.py line 117: Order.delivery_address is on_delete=SET_NULL.
SetNull(ords, address_id) ==
    [i \in DOMAIN ords |->
       IF ords[i].delivery_address = address_id
       THEN [ords[i] EXCEPT !.delivery_address = NoAddress] ELSE ords[i]]

\* Lines 660-669.
delete_address(u) ==
    \E address_id \in 1..MaxAddresses, method \in {"GET", "POST"} :
        IF ~OwnAddress(addresses, u, address_id)
        THEN /\ last' = Request("delete_address", u, "error:404")
             /\ UNCHANGED <<threads, orders, addresses, carts, cartItems, session, settings,
                            nextAddressId, nextGatewayOrderId, settled>>
        ELSE IF method = "POST"
        THEN /\ addresses' = {a \in addresses : a.id # address_id}
             /\ orders' = SetNull(orders, address_id)
             /\ last' = Request("delete_address", u, "redirect:manage_addresses")
             /\ UNCHANGED <<threads, carts, cartItems, session, settings,
                            nextAddressId, nextGatewayOrderId, settled>>
        ELSE /\ last' = [Request("delete_address", u, "delete_address.html")
                           EXCEPT !.method = method]
             /\ UNCHANGED <<threads, orders, addresses, carts, cartItems, session, settings,
                            nextAddressId, nextGatewayOrderId, settled>>

\* Lines 530-548.
select_address_buy_now(u) ==
    \E product_id \in Sarees, method \in {"GET", "POST"},
       address_id \in {NoAddress} \cup 1..MaxAddresses :
        IF method = "POST" /\ address_id # NoAddress
        THEN IF OwnAddress(addresses, u, address_id)
             THEN /\ session' = [session EXCEPT ![u] =
                                   [selected_address_id |-> address_id,
                                    product_id |-> product_id]]
                  /\ last' = Request("select_address_buy_now", u,
                                     "redirect:process_buy_now_payment")
                  /\ UNCHANGED <<threads, orders, addresses, carts, cartItems, settings,
                                 nextAddressId, nextGatewayOrderId, settled>>
             ELSE /\ last' = Request("select_address_buy_now", u, "error:404")
                  /\ UNCHANGED <<threads, orders, addresses, carts, cartItems, session, settings,
                                 nextAddressId, nextGatewayOrderId, settled>>
        ELSE /\ last' = [Request("select_address_buy_now", u, "select_address.html")
                           EXCEPT !.method = method]
             /\ UNCHANGED <<threads, orders, addresses, carts, cartItems, session, settings,
                            nextAddressId, nextGatewayOrderId, settled>>

\* Lines 551-573.
select_address_checkout(u) ==
    \E method \in {"GET", "POST"}, address_id \in {NoAddress} \cup 1..MaxAddresses :
        IF u \notin carts
        THEN /\ last' = Request("select_address_checkout", u, "error:404")
             /\ UNCHANGED <<threads, orders, addresses, carts, cartItems, session, settings,
                            nextAddressId, nextGatewayOrderId, settled>>
        ELSE IF cartItems[u] = <<>>
        THEN /\ last' = Request("select_address_checkout", u, "redirect:cart")
             /\ UNCHANGED <<threads, orders, addresses, carts, cartItems, session, settings,
                            nextAddressId, nextGatewayOrderId, settled>>
        ELSE IF method = "POST" /\ address_id # NoAddress
        THEN IF OwnAddress(addresses, u, address_id)
             THEN /\ session' = [session EXCEPT ![u].selected_address_id = address_id]
                  /\ last' = Request("select_address_checkout", u,
                                     "redirect:process_checkout_payment")
                  /\ UNCHANGED <<threads, orders, addresses, carts, cartItems, settings,
                                 nextAddressId, nextGatewayOrderId, settled>>
             ELSE /\ last' = Request("select_address_checkout", u, "error:404")
                  /\ UNCHANGED <<threads, orders, addresses, carts, cartItems, session, settings,
                                 nextAddressId, nextGatewayOrderId, settled>>
        ELSE /\ last' = [Request("select_address_checkout", u, "select_address.html")
                           EXCEPT !.method = method]
             /\ UNCHANGED <<threads, orders, addresses, carts, cartItems, session, settings,
                            nextAddressId, nextGatewayOrderId, settled>>

\* ------------------------------------------------------------------ checkout initiation
\* Order.objects.create as the two checkout views call it: paid, the payment id
\* and the signature keep their defaults (models.py lines 125-128).
NewOrder(id, u, saree, gateway_order_id, address_id) ==
    [amount |-> price(saree), user |-> u, id |-> id,
     delivery_address |-> address_id, razorpay_order_id |-> gateway_order_id,
     paid |-> FALSE,
     razorpay_payment_id |-> NoPayment, razorpay_signature |-> NoSignature,
     saree |-> saree]

ClearedSession == [selected_address_id |-> NoAddress, product_id |-> NoProduct]

\* Lines 672-705.
process_buy_now_payment(u) ==
    LET address_id == session[u].selected_address_id
        product_id == session[u].product_id
    IN  IF address_id = NoAddress \/ product_id = NoProduct
        THEN /\ last' = Request("process_buy_now_payment", u, "redirect:shop")
             /\ UNCHANGED <<threads, orders, addresses, carts, cartItems, session, settings,
                            nextAddressId, nextGatewayOrderId, settled>>
        ELSE IF ~OwnAddress(addresses, u, address_id)
        THEN /\ last' = Request("process_buy_now_payment", u, "error:404")
             /\ UNCHANGED <<threads, orders, addresses, carts, cartItems, session, settings,
                            nextAddressId, nextGatewayOrderId, settled>>
        ELSE /\ nextGatewayOrderId <= MaxGatewayOrders
             /\ Len(orders) + 1 <= MaxOrders
             /\ orders' = Append(orders, NewOrder(Len(orders) + 1, u, product_id,
                                                  nextGatewayOrderId, address_id))
             /\ nextGatewayOrderId' = nextGatewayOrderId + 1
             /\ session' = [session EXCEPT ![u] = ClearedSession]
             /\ last' = [Request("process_buy_now_payment", u, "payment.html")
                           EXCEPT !.order_id = nextGatewayOrderId,
                                  !.total_amount = price(product_id)]
             /\ UNCHANGED <<threads, addresses, carts, cartItems, settings, nextAddressId, settled>>

\* A checkout that leaves the selection in the session.
ConsumeSelection_kept(sess, u) == sess

\* Line 744: del request.session['selected_address_id'].
ConsumeSelection(sess, u) == [sess EXCEPT ![u].selected_address_id = NoAddress]

RECURSIVE CartTotal(_)
\* models.py lines 85-86 and 108-109: Cart.get_total_price.
CartTotal(items) ==
    IF items = <<>> THEN 0 ELSE price(Head(items)) + CartTotal(Tail(items))

\* A checkout that creates the Order row of the first cart line only.
CheckoutOrders_first(first_id, u, items, gateway_order_id, address_id) ==
    [k \in 1..1 |-> NewOrder(first_id, u, items[1], gateway_order_id, address_id)]

\* Lines 732-742: one Order row per cart line, in the cart's order.
CheckoutOrders(first_id, u, items, gateway_order_id, address_id) ==
    [k \in 1..Len(items) |->
       NewOrder(first_id + k - 1, u, items[k], gateway_order_id, address_id)]

\* Lines 708-756.
process_checkout_payment(u) ==
    LET address_id == session[u].selected_address_id
    IN  IF address_id = NoAddress
        THEN /\ last' = Request("process_checkout_payment", u, "redirect:cart")
             /\ UNCHANGED <<threads, orders, addresses, carts, cartItems, session, settings,
                            nextAddressId, nextGatewayOrderId, settled>>
        ELSE IF ~OwnAddress(addresses, u, address_id) \/ u \notin carts
        THEN /\ last' = Request("process_checkout_payment", u, "error:404")
             /\ UNCHANGED <<threads, orders, addresses, carts, cartItems, session, settings,
                            nextAddressId, nextGatewayOrderId, settled>>
        ELSE IF cartItems[u] = <<>>
        THEN /\ last' = Request("process_checkout_payment", u, "redirect:cart")
             /\ UNCHANGED <<threads, orders, addresses, carts, cartItems, session, settings,
                            nextAddressId, nextGatewayOrderId, settled>>
        ELSE /\ nextGatewayOrderId <= MaxGatewayOrders
             /\ Len(orders) + Len(cartItems[u]) <= MaxOrders
             /\ orders' = orders \o CheckoutOrders(Len(orders) + 1, u, cartItems[u],
                                                   nextGatewayOrderId, address_id)
             /\ nextGatewayOrderId' = nextGatewayOrderId + 1
             /\ session' = ConsumeSelection(session, u)
             /\ last' = [Request("process_checkout_payment", u, "checkout.html")
                           EXCEPT !.order_id = nextGatewayOrderId,
                                  !.total_amount = CartTotal(cartItems[u])]
             /\ UNCHANGED <<threads, addresses, carts, cartItems, settings, nextAddressId, settled>>

\* ------------------------------------------------------------------ specification
\* Settlement against every outcome of the outbound calls, with the views that
\* lead a shopper to an order group.
\* ------------------------------------------------------------------ payment_complete, statement by statement
\* The same view with other requests running between its database statements.
\* No transaction is open (the view has no transaction.atomic and the settings
\* no ATOMIC_REQUESTS), so every statement commits on its own.  The outbound
\* calls succeed here.

\* The ids of the rows a worker holds in memory.
FoundIds(c) == {c.found[k].id : k \in DOMAIN c.found}

FoundRow(c, i) == c.found[CHOOSE k \in DOMAIN c.found : c.found[k].id = i]

\* Another worker has passed the lookup and the signature check for the same
\* gateway order id and has saved nothing yet.
BeforeCommit(w, order_id) ==
    \E v \in Workers \ {w} :
        /\ callbacks[v].pc \in {"select", "save"}
        /\ callbacks[v].order_id = order_id
        /\ callbacks[v].saved = {}

\* Lines 120-143: the method check, orders.exists() and the signature check.
callback_receive(w, u) ==
    /\ callbacks[w].pc = "idle"
    /\ \E order_id \in CallbackOrderIds, payment_id \in PaymentIds :
       \E signature \in {HMAC(order_id, payment_id), ForgedSignature} :
       \E passed \in {/\ Lookup(orders, order_id) # {}
                      /\ verify_payment_signature(order_id, payment_id, signature, FALSE)} :
          callbacks' = [callbacks EXCEPT ![w] =
              [IdleCallback EXCEPT
                 !.order_id = order_id, !.payment_id = payment_id,
                 !.resp = IF passed THEN "none" ELSE "payment_failed.html",
                 !.user = u, !.signature = signature,
                 !.pc = IF passed THEN "select" ELSE "done",
                 !.raced = passed /\ BeforeCommit(w, order_id)]]
    /\ UNCHANGED <<orders, addresses, carts, cartItems, session, settings,
                   nextAddressId, nextGatewayOrderId, last, settled, saves, dispatch, cartState, checkouts, gateway>>

\* Line 146, for o in orders: the queryset is evaluated, the rows are read
\* into memory in primary-key order.
callback_select(w) ==
    /\ callbacks[w].pc = "select"
    /\ \E seq \in {SortedSeq(Lookup(orders, callbacks[w].order_id))} :
          callbacks' = [callbacks EXCEPT ![w] =
              [@ EXCEPT !.pc = "save",
                        !.found = [k \in DOMAIN seq |-> orders[seq[k]]]]]
    /\ UNCHANGED <<orders, addresses, carts, cartItems, session, settings,
                   nextAddressId, nextGatewayOrderId, last, settled, saves, dispatch, cartState, checkouts, gateway>>

\* Lines 147-150: one pass of the commit loop; o.save() writes the row as
\* this worker holds it.
callback_save(w) ==
    /\ callbacks[w].pc = "save"
    /\ \E k \in DOMAIN callbacks[w].found :
          /\ callbacks[w].found[k].id \notin callbacks[w].saved
          /\ \A j \in 1..(k - 1) : callbacks[w].found[j].id \in callbacks[w].saved
          /\ \E o \in {MarkPaid(callbacks[w].found[k], callbacks[w].payment_id,
                                callbacks[w].signature)} :
                /\ orders' = [orders EXCEPT ![o.id] = o]
                /\ callbacks' = [callbacks EXCEPT ![w] =
                      [@ EXCEPT !.saved = @ \cup {o.id},
                                !.found = [@ EXCEPT ![k] = o]]]
    /\ UNCHANGED <<addresses, carts, cartItems, session, settings,
                   nextAddressId, nextGatewayOrderId, last, settled, saves, dispatch, cartState, checkouts, gateway>>

\* Lines 152-342: the fan-out over the rows in memory, the cart and the response.
callback_finish(w) ==
    /\ callbacks[w].pc = "save"
    /\ FoundIds(callbacks[w]) = callbacks[w].saved
    /\ \E n \in {Notify(SortedSeq(callbacks[w].saved),
                        [i \in callbacks[w].saved |-> FoundRow(callbacks[w], i)],
                        settings, {}, "ok")} :
          callbacks' = [callbacks EXCEPT ![w] =
              [@ EXCEPT !.resp = "thankyou.html", !.attempts = n.att, !.pc = "done"]]
    /\ cartItems' = ClearCart(cartItems, carts, callbacks[w].user)
    /\ UNCHANGED <<orders, addresses, carts, session, settings,
                   nextAddressId, nextGatewayOrderId, last, settled, saves, dispatch, cartState, checkouts, gateway>>

\* ------------------------------------------------------------------ specifications
Next ==
    \/ \E u \in Shoppers : payment_complete(u, TRUE)
    \/ \E u \in Shoppers : cart_view(u)
    \/ \E u \in Shoppers : add_to_cart(u)
    \/ \E u \in Shoppers : remove_from_cart(u)
    \/ \E u \in Shoppers : clear_cart_after_payment(u)
    \/ \E u \in Shoppers : add_address(u)
    \/ \E u \in Shoppers : edit_address(u)
    \/ \E u \in Shoppers : delete_address(u)
    \/ \E u \in Shoppers : select_address_checkout(u)
    \/ \E u \in Shoppers : process_checkout_payment(u)

Spec == Init /\ [][Next]_vars

\* Every state-changing view, with callbacks posted by every user; the
\* outbound calls of a settlement succeed.
NextViews ==
    \/ \E u \in Users : payment_complete(u, FALSE)
    \/ \E u \in Shoppers : cart_view(u)
    \/ \E u \in Shoppers : add_to_cart(u)
    \/ \E u \in Shoppers : remove_from_cart(u)
    \/ \E u \in Shoppers : clear_cart_after_payment(u)
    \/ \E u \in Shoppers : add_address(u)
    \/ \E u \in Shoppers : edit_address(u)
    \/ \E u \in Shoppers : delete_address(u)
    \/ \E u \in Shoppers : select_address_buy_now(u)
    \/ \E u \in Shoppers : select_address_checkout(u)
    \/ \E u \in Shoppers : process_buy_now_payment(u)
    \/ \E u \in Shoppers : process_checkout_payment(u)

\* The deployment with the admin contacts and SMS configured: of the views,
\* only the notification section of payment_complete reads these settings.
InitConfigured == Init /\ settings.ENABLE_SMS

SpecViews == InitConfigured /\ [][NextViews]_vars

\* The way of every buyer from the cart and the address book to the Order
\* rows of a checkout; no callback arrives.
NextCheckout ==
    \E u \in Users :
        \/ add_to_cart(u)
        \/ remove_from_cart(u)
        \/ add_address(u)
        \/ delete_address(u)
        \/ select_address_buy_now(u)
        \/ select_address_checkout(u)
        \/ process_buy_now_payment(u)
        \/ process_checkout_payment(u)

SpecCheckout == InitConfigured /\ [][NextCheckout]_vars

\* A cart checkout and its callbacks, delivered to workers that run at the
\* same time.
NextCallbacks ==
    \/ \E u \in Shoppers :
          \/ add_to_cart(u)
          \/ add_address(u)
          \/ select_address_checkout(u)
          \/ process_checkout_payment(u)
    \/ \E w \in Workers :
          \/ \E u \in Shoppers : callback_receive(w, u)
          \/ callback_select(w)
          \/ callback_save(w)
          \/ callback_finish(w)

SpecCallbacks == Init /\ [][NextCallbacks]_vars

\* ------------------------------------------------------------------ Address.save, statement by statement
\* Address.save runs two statements, each committed on its own (settings.py
\* sets no ATOMIC_REQUESTS and the views open no transaction).  serial says
\* whether a request waits for every other address request to end.

InFlight(w) == saves[w].pc \in {"unset", "write"}

\* add_address (views.py 576-621) with every field filled in, up to the call
\* of Address.objects.create; the primary key is given at the insert.
address_add(w, u, serial) ==
    \E is_default \in BOOLEAN :
        /\ ~InFlight(w)
        /\ serial => \A v \in Workers : ~InFlight(v)
        /\ nextAddressId <= MaxAddressRows
        /\ saves' = [saves EXCEPT ![w] =
                       [user |-> u, id |-> NoAddress, pc |-> "unset", raced |-> FALSE,
                        is_default |-> is_default]]
        /\ UNCHANGED <<orders, addresses, carts, cartItems, session, settings,
                       nextAddressId, nextGatewayOrderId, last, settled, callbacks, dispatch, cartState, checkouts, gateway>>

\* edit_address (views.py 631-657) with every field filled in, up to the call
\* of address.save().
address_edit(w, u, serial) ==
    \E address_id \in 1..MaxAddressRows, is_default \in BOOLEAN :
        /\ ~InFlight(w)
        /\ serial => \A v \in Workers : ~InFlight(v)
        /\ OwnAddress(addresses, u, address_id)
        /\ saves' = [saves EXCEPT ![w] =
                       [user |-> u, id |-> address_id, pc |-> "unset", raced |-> FALSE,
                        is_default |-> is_default]]
        /\ UNCHANGED <<orders, addresses, carts, cartItems, session, settings,
                       nextAddressId, nextGatewayOrderId, last, settled, callbacks, dispatch, cartState, checkouts, gateway>>

\* Another save of a default address of the same buyer has run its unset and
\* not yet written its row.
Overlaps(w, v) ==
    /\ v # w /\ saves[v].pc = "write"
    /\ saves[v].user = saves[w].user /\ saves[v].is_default

\* models.py lines 41-42: the unset, run only for a default address.
save_unset(w) ==
    /\ saves[w].pc = "unset"
    /\ addresses' = IF saves[w].is_default
                     THEN UnsetDefaults(addresses, saves[w].user) ELSE addresses
    /\ saves' = [v \in Workers |->
                   IF v = w
                   THEN [saves[w] EXCEPT !.pc = "write",
                           !.raced = saves[w].is_default /\ \E x \in Workers : Overlaps(w, x)]
                   ELSE IF saves[w].is_default /\ Overlaps(w, v)
                   THEN [saves[v] EXCEPT !.raced = TRUE]
                   ELSE saves[v]]
    /\ UNCHANGED <<orders, carts, cartItems, session, settings,
                   nextAddressId, nextGatewayOrderId, last, settled, callbacks, dispatch, cartState, checkouts, gateway>>

\* models.py line 43: super().save() writes the row; a new row takes the next
\* primary key.
save_write(w) ==
    /\ saves[w].pc = "write"
    /\ \E id \in {IF saves[w].id = NoAddress THEN nextAddressId ELSE saves[w].id} :
          /\ addresses' = WriteRow(addresses,
                              [user |-> saves[w].user, id |-> id,
                               is_default |-> saves[w].is_default])
          /\ nextAddressId' = IF saves[w].id = NoAddress
                               THEN nextAddressId + 1 ELSE nextAddressId
          /\ saves' = [saves EXCEPT ![w] = [saves[w] EXCEPT !.id = id, !.pc = "done"]]
    /\ UNCHANGED <<orders, carts, cartItems, session, settings,
                   nextGatewayOrderId, last, settled, callbacks, dispatch, cartState, checkouts, gateway>>

\* delete_address (views.py 660-669), POST: one DELETE statement.
address_delete(u, serial) ==
    \E address_id \in 1..MaxAddressRows :
        /\ serial => \A v \in Workers : ~InFlight(v)
        /\ OwnAddress(addresses, u, address_id)
        /\ addresses' = {a \in addresses : a.id # address_id}
        /\ orders' = SetNull(orders, address_id)
        /\ UNCHANGED <<carts, cartItems, session, settings,
                       nextAddressId, nextGatewayOrderId, last, settled, threads>>

\* Address requests, each run to completion before the next starts.
NextAddressSerial ==
    \/ \E w \in Workers, u \in Users :
          \/ address_add(w, u, TRUE)
          \/ address_edit(w, u, TRUE)
    \/ \E w \in Workers :
          \/ save_unset(w)
          \/ save_write(w)
    \/ \E u \in Users : address_delete(u, TRUE)

SpecAddressSerial == Init /\ [][NextAddressSerial]_vars

\* Address requests served by workers that run at the same time.
NextAddressRace ==
    \/ \E w \in Workers, u \in Users :
          \/ address_add(w, u, FALSE)
          \/ address_edit(w, u, FALSE)
    \/ \E w \in Workers :
          \/ save_unset(w)
          \/ save_write(w)
    \/ \E u \in Users : address_delete(u, FALSE)

SpecAddressRace == Init /\ [][NextAddressRace]_vars

\* ------------------------------------------------------------------ add_to_cart, statement by statement
\* QuerySet.get_or_create is a SELECT and, when it finds nothing, an INSERT;
\* an INSERT that breaks a unique constraint raises IntegrityError, which
\* get_or_create answers with the row that is there (created = False).

\* models.py line 75: Cart.user is a OneToOneField, unique in the table.
CartClash(rows, r) == \E x \in rows : x.user = r.user

\* models.py lines 97-98: unique_together = ('cart', 'saree').
ItemClash(rows, r) == \E x \in rows : x.cart = r.cart /\ x.saree = r.saree

\* models.py lines 100-103, CartItem.save: the quantity is set to 1 before
\* the row is written.
CartItemSave(r) == [r EXCEPT !.quantity = 1]

\* An INSERT into a CartItem table without the unique constraint.
InsertItem_unconstrained(rows, r) == rows \cup {CartItemSave(r)}

\* CartItem.objects.create under the unique constraint: a clashing row is refused.
InsertItem(rows, r) == IF ItemClash(rows, r) THEN rows ELSE rows \cup {CartItemSave(r)}

\* Cart.objects.create under the unique constraint.
InsertCart(rows, r) == IF CartClash(rows, r) THEN rows ELSE rows \cup {r}

AddInFlight(w) == adds[w].pc \notin {"idle", "done"}

\* Lines 359-361: the POST arrives for an available saree.
add_receive(w, u) ==
    \E s \in Sarees :
        /\ ~AddInFlight(w)
        /\ adds' = [adds EXCEPT ![w] =
                      [IdleAdd EXCEPT !.user = u, !.pc = "cart_get", !.saree = s]]
        /\ UNCHANGED <<orders, addresses, carts, cartItems, session, settings,
                       nextAddressId, nextGatewayOrderId, last, settled,
                       callbacks, saves, dispatch, cartTable, itemTable, nextPk,
                       checkouts, gateway>>

\* Line 362, get_or_create: the SELECT of the requester's Cart.
add_cart_get(w) ==
    /\ adds[w].pc = "cart_get"
    /\ LET found == {c \in cartTable : c.user = adds[w].user}
       IN adds' = [adds EXCEPT ![w] =
                     IF found = {} THEN [@ EXCEPT !.pc = "cart_create"]
                     ELSE IF Cardinality(found) > 1
                     THEN [@ EXCEPT !.resp = "error:500", !.pc = "done"]
                     ELSE [@ EXCEPT !.pc = "item_get",
                                    !.cart = (CHOOSE c \in found : TRUE).id]]
    /\ UNCHANGED <<orders, addresses, carts, cartItems, session, settings,
                   nextAddressId, nextGatewayOrderId, last, settled,
                   callbacks, saves, dispatch, cartTable, itemTable, nextPk,
                   checkouts, gateway>>

\* Line 362, get_or_create: the INSERT of the Cart, or after an
\* IntegrityError the row another request inserted.
add_cart_create(w) ==
    /\ adds[w].pc = "cart_create"
    /\ LET r == [user |-> adds[w].user, id |-> nextPk.cart]
           clash == CartClash(cartTable, r)
       IN /\ cartTable' = InsertCart(cartTable, r)
          /\ nextPk' = IF clash THEN nextPk ELSE [nextPk EXCEPT !.cart = @ + 1]
          /\ adds' = [adds EXCEPT ![w] =
                        [@ EXCEPT !.pc = "item_get",
                                  !.cart = IF clash
                                           THEN (CHOOSE c \in cartTable : c.user = r.user).id
                                           ELSE r.id]]
    /\ UNCHANGED <<orders, addresses, carts, cartItems, session, settings,
                   nextAddressId, nextGatewayOrderId, last, settled,
                   callbacks, saves, dispatch, itemTable, checkouts, gateway>>

\* Lines 364-368, get_or_create: the SELECT of the (cart, saree) CartItem;
\* lines 370-380: a row that is there is reported as already in the cart.
add_item_get(w) ==
    /\ adds[w].pc = "item_get"
    /\ LET found == {r \in itemTable : r.cart = adds[w].cart /\ r.saree = adds[w].saree}
       IN adds' = [adds EXCEPT ![w] =
                     IF found = {} THEN [@ EXCEPT !.pc = "item_create"]
                     ELSE IF Cardinality(found) > 1
                     THEN [@ EXCEPT !.resp = "error:500", !.pc = "done"]
                     ELSE [@ EXCEPT !.resp = "already_in_cart", !.pc = "done",
                                    !.via = "get"]]
    /\ UNCHANGED <<orders, addresses, carts, cartItems, session, settings,
                   nextAddressId, nextGatewayOrderId, last, settled,
                   callbacks, saves, dispatch, cartTable, itemTable, nextPk,
                   checkouts, gateway>>

\* Lines 364-368, get_or_create: the INSERT of the CartItem (lines 382-392
\* report it as added), or after an IntegrityError the row another request
\* inserted (lines 370-380).
add_item_create(w) ==
    /\ adds[w].pc = "item_create"
    /\ nextPk.item <= MaxCartItemRows
    /\ LET r == [id |-> nextPk.item, saree |-> adds[w].saree, cart |-> adds[w].cart,
                 quantity |-> 1]
           clash == ItemClash(itemTable, r)
       IN /\ itemTable' = InsertItem(itemTable, r)
          /\ nextPk' = IF clash THEN nextPk ELSE [nextPk EXCEPT !.item = @ + 1]
          /\ adds' = [adds EXCEPT ![w] =
                        [@ EXCEPT !.resp = IF clash THEN "already_in_cart" ELSE "added",
                                  !.pc = "done", !.via = "create"]]
    /\ UNCHANGED <<orders, addresses, carts, cartItems, session, settings,
                   nextAddressId, nextGatewayOrderId, last, settled,
                   callbacks, saves, dispatch, cartTable, checkouts, gateway>>

\* remove_from_cart (lines 395-411) for an item of the requester's own cart:
\* one DELETE statement.
remove_item(u) ==
    \E r \in itemTable :
        /\ \E c \in cartTable : c.id = r.cart /\ c.user = u
        /\ itemTable' = itemTable \ {r}
        /\ UNCHANGED <<orders, addresses, carts, cartItems, session, settings,
                       nextAddressId, nextGatewayOrderId, last, settled,
                       callbacks, saves, dispatch, cartTable, nextPk, adds,
                       checkouts, gateway>>

\* add_to_cart and remove_from_cart requests served by workers that run at
\* the same time.
NextCart ==
    \/ \E w \in Workers, u \in Users : add_receive(w, u)
    \/ \E w \in Workers :
          \/ add_cart_get(w)
          \/ add_cart_create(w)
          \/ add_item_get(w)
          \/ add_item_create(w)
    \/ \E u \in Users : remove_item(u)

SpecCart == Init /\ [][NextCart]_vars

\* ------------------------------------------------------------------ process_checkout_payment, statement by statement
\* The view reads the cart twice, for the total and for the loop that creates
\* the Order rows, with the call to the gateway in between; no transaction is
\* open, so other requests of the buyer may run between its statements.

\* Lines 710-723: the session's address, the requester's Cart, the emptiness
\* check and cart.get_total_price().
checkout_receive(w, u) ==
    /\ checkouts[w].pc \in {"idle", "done"}
    /\ session[u].selected_address_id # NoAddress
    /\ OwnAddress(addresses, u, session[u].selected_address_id)
    /\ u \in carts
    /\ cartItems[u] # <<>>
    /\ checkouts' = [checkouts EXCEPT ![w] =
                       [order_id |-> UnknownGatewayOrder, user |-> u,
                        total_amount |-> CartTotal(cartItems[u]),
                        pc |-> "gateway", address |-> session[u].selected_address_id]]
    /\ UNCHANGED <<orders, addresses, carts, cartItems, session, settings,
                   nextAddressId, nextGatewayOrderId, last, settled,
                   callbacks, saves, dispatch, cartState, gateway>>

\* Lines 724-730: razorpay_amount = total_amount * 100 and client.order.create.
checkout_gateway(w) ==
    /\ checkouts[w].pc = "gateway"
    /\ nextGatewayOrderId <= MaxGatewayOrders
    /\ gateway' = Append(gateway, checkouts[w].total_amount * 100)
    /\ nextGatewayOrderId' = nextGatewayOrderId + 1
    /\ checkouts' = [checkouts EXCEPT ![w] =
                       [@ EXCEPT !.order_id = nextGatewayOrderId, !.pc = "create"]]
    /\ UNCHANGED <<orders, addresses, carts, cartItems, session, settings,
                   nextAddressId, last, settled,
                   callbacks, saves, dispatch, cartState>>

\* Lines 732-744: for cart_item in cart.items.all(): Order.objects.create, and
\* the selection leaves the session.
checkout_create(w) ==
    /\ checkouts[w].pc = "create"
    /\ \E items \in {cartItems[checkouts[w].user]} :
          /\ Len(orders) + Len(items) <= MaxOrders
          /\ orders' = orders \o CheckoutOrders(Len(orders) + 1, checkouts[w].user, items,
                                                checkouts[w].order_id, checkouts[w].address)
    /\ session' = ConsumeSelection(session, checkouts[w].user)
    /\ checkouts' = [checkouts EXCEPT ![w] = [@ EXCEPT !.pc = "done"]]
    /\ UNCHANGED <<addresses, carts, cartItems, settings,
                   nextAddressId, nextGatewayOrderId, last, settled,
                   callbacks, saves, dispatch, cartState, gateway>>

\* A checkout served while the buyer's other requests go on.
NextCheckoutRace ==
    \/ \E u \in Shoppers :
          \/ add_to_cart(u)
          \/ remove_from_cart(u)
          \/ add_address(u)
          \/ select_address_checkout(u)
    \/ \E w \in Workers :
          \/ \E u \in Shoppers : checkout_receive(w, u)
          \/ checkout_gateway(w)
          \/ checkout_create(w)

SpecCheckoutRace == Init /\ [][NextCheckoutRace]_vars

\* ------------------------------------------------------------------ the SMS code on its own
Providers == {"ok", "raise"}

\* One call of _send_sms (views.py 37-67) for any flag, import, credentials
\* and provider behaviour.
call_send_sms ==
    /\ \E flag \in BOOLEAN, util \in BOOLEAN, creds \in Credentials, provider \in Providers :
         \E r \in {_send_sms(flag, util, creds, provider)} :
            dispatch' = [NoDispatch EXCEPT !.ran = "_send_sms", !.flag = flag,
                            !.util = util, !.creds = creds, !.provider = provider,
                            !.result = r.result, !.contacted = r.contacted]
    /\ UNCHANGED <<orders, addresses, carts, cartItems, session, settings,
                   nextAddressId, nextGatewayOrderId, last, settled, callbacks, saves, cartState,
                   checkouts, gateway>>

\* The settings the SMS section reads.
SmsSettings == [ENABLE_SMS : BOOLEAN, ADMIN_EMAIL : {TRUE}, ADMIN_PHONE : BOOLEAN]

\* The SMS section of payment_complete (views.py 294-327) run for a group of
\* one or two rows of one buyer, each with or without a delivery address.
run_sms_section ==
    /\ \E cfg \in SmsSettings, u \in Users, n \in 1..MaxOrders, mode \in FailureModes :
         \E address \in [1..n -> {NoAddress, 1}], F \in FailureChoices(1..n) :
            LET ords == [i \in 1..n |-> NewOrder(i, u, "s1", 1, address[i])]
            IN \E r \in {SmsSection(SortedSeq(1..n), ords, cfg, F, mode)} :
                  dispatch' = [NoDispatch EXCEPT !.user = u, !.ran = "sms_section",
                                  !.cfg = cfg, !.group = ords, !.failing = F,
                                  !.mode = mode, !.att = r.att, !.raised = r.raised]
    /\ UNCHANGED <<orders, addresses, carts, cartItems, session, settings,
                   nextAddressId, nextGatewayOrderId, last, settled, callbacks, saves, cartState,
                   checkouts, gateway>>

NextSms == call_send_sms \/ run_sms_section

SpecSms == Init /\ [][NextSms]_vars

\* ------------------------------------------------------------------ properties
\* The last request was a POST to payment_complete.
Callback == last.view = "payment_complete" /\ last.method = "POST"

\* The callback's triple is the gateway's and the client checked it without a
\* fault of its own (stated from the request, not from the view's check).
Genuine(req) ==
    ~req.clientFault /\ req.signature = HMAC(req.order_id, req.payment_id)

\* The last request was a callback that found rows and passed the signature check.
VerifiedCallback == Callback /\ last.matched # {} /\ Genuine(last)

Returned == last.resp \in {"thankyou.html", "payment_failed.html"}

PaidFields(o) == <<o.paid, o.razorpay_payment_id, o.razorpay_signature>>

\* C1: when a callback that found N rows and passed the signature check has
\* returned its response, every one of the N rows is paid and carries the
\* callback's payment id and signature, whatever the email and SMS dispatches did.
C1_GroupPaidWithCallbackIds ==
    (VerifiedCallback /\ Returned) =>
        \A i \in last.matched :
            PaidFields(orders[i]) = <<TRUE, last.payment_id, last.signature>>

\* A verified callback for a group of two rows returned while every dispatch
\* it attempted raised.
C1_Witness ==
    /\ VerifiedCallback /\ Returned
    /\ Cardinality(last.matched) = 2
    /\ last.attempts # {}
    /\ last.attempts \subseteq last.failed
    /\ last.mode = "raise"

\* C2: a callback whose signature check fails (the triple is rejected or the
\* client raises) changes no order's paid flag, payment id or signature, clears
\* no cart, attempts no notification and returns the failure view.
C2_VerificationFailureChangesNothing ==
    [][(/\ last'.view = "payment_complete" /\ last'.method = "POST"
        /\ \E i \in DOMAIN orders : orders[i].razorpay_order_id = last'.order_id
        /\ ~Genuine(last'))
       => /\ orders' = orders
          /\ cartItems' = cartItems
          /\ carts' = carts
          /\ last'.attempts = {}
          /\ last'.resp = "payment_failed.html"]_vars

\* The client raised on the gateway's own triple for an unpaid group while the
\* requester's cart held items.
C2_Witness ==
    /\ Callback /\ last.matched # {}
    /\ last.clientFault /\ last.signature = HMAC(last.order_id, last.payment_id)
    /\ last.resp = "payment_failed.html"
    /\ \A i \in last.matched : ~orders[i].paid
    /\ cartItems[last.user] # <<>>

\* C3: a callback whose gateway order id matches no Order row writes no order
\* and no cart, attempts no notification and returns the failure view.
C3_UnknownOrderChangesNothing ==
    [][(/\ last'.view = "payment_complete" /\ last'.method = "POST"
        /\ \A i \in DOMAIN orders : orders[i].razorpay_order_id # last'.order_id)
       => /\ orders' = orders
          /\ cartItems' = cartItems
          /\ carts' = carts
          /\ last'.writes = {}
          /\ last'.attempts = {}
          /\ last'.resp = "payment_failed.html"]_vars

\* A callback for the id no order carries, signed by the gateway, was refused
\* while unpaid orders and a filled cart existed.
C3_Witness ==
    /\ Callback /\ last.matched = {}
    /\ last.order_id = UnknownGatewayOrder
    /\ last.signature = HMAC(last.order_id, last.payment_id)
    /\ last.resp = "payment_failed.html"
    /\ orders # <<>> /\ \A i \in DOMAIN orders : ~orders[i].paid
    /\ cartItems[last.user] # <<>>

\* C4: in every persisted state, also after a persistence error partway through
\* the commit loop, the rows sharing a gateway order id have the same paid value.
C4_GroupMovesTogether ==
    \A i, j \in DOMAIN orders :
        orders[i].razorpay_order_id = orders[j].razorpay_order_id
            => orders[i].paid = orders[j].paid

\* C5: once a callback has passed the lookup, the signature check and the
\* commit, the response is the success view and the rows are paid, whether or
\* not the metadata fetch or any email or SMS dispatch failed or raised.
C5_BestEffortStepsNeverFail ==
    (VerifiedCallback /\ last.writes = last.matched) =>
        /\ last.resp = "thankyou.html"
        /\ \A i \in last.matched : orders[i].paid

\* The success view was returned although the metadata fetch raised and every
\* notification attempted raised.
C5_Witness ==
    /\ VerifiedCallback /\ last.writes = last.matched
    /\ last.resp = "thankyou.html"
    /\ PaymentFetch \in last.failed
    /\ last.attempts # {}
    /\ last.attempts \subseteq last.failed
    /\ last.mode = "raise"

\* C6: a failing notification suppresses no other: after the commit, whatever
\* failed or raised, both customer emails are attempted for every order whose
\* buyer has an email address and, with SMS enabled, the admin SMS (if an admin
\* phone is set) and the customer SMS of every order with a delivery address.
C6_FailuresAreContained ==
    (VerifiedCallback /\ last.writes = last.matched) =>
        /\ \A i \in last.matched :
              /\ email(orders[i].user) # ""
                    => {CustomerEmail(i), CustomerEmailUtil(i)} \subseteq last.attempts
              /\ (settings.ENABLE_SMS /\ orders[i].delivery_address # NoAddress)
                    => CustomerSms(i) \in last.attempts
        /\ (settings.ENABLE_SMS /\ settings.ADMIN_PHONE) => AdminSms \in last.attempts
        /\ AdminEmailUtil \in last.attempts

\* Both admin emails raised, and the customer emails and SMS of both orders of
\* the group were attempted all the same.
C6_WitnessAdminEmailFails ==
    /\ VerifiedCallback /\ Cardinality(last.matched) = 2
    /\ last.failed = AdminEmails /\ last.mode = "raise"
    /\ \A i \in last.matched : OrderMessages(i) \subseteq last.attempts

\* C7: every POST callback ends in the success view or the failure view.
C7_TwoResponses ==
    Callback => last.resp \in {"thankyou.html", "payment_failed.html"}

\* C8: each Order row is mutated exactly once by settlement: a row already paid
\* keeps its paid flag, payment id and signature in every later step, a further
\* verified callback for its gateway order id included.
C8_RowSettledOnce ==
    [][\A i \in DOMAIN orders :
          orders[i].paid => PaidFields(orders'[i]) = PaidFields(orders[i])]_vars

\* C9: across all views, paid never goes from true to false, and the only step
\* that turns it from false to true is the commit of a POST callback whose
\* signature check succeeded, for a row that commit saved.
C9_PaidIsOneWay ==
    [][\A i \in DOMAIN orders :
          /\ orders[i].paid => (i \in DOMAIN orders' /\ orders'[i].paid)
          /\ (~orders[i].paid /\ i \in DOMAIN orders' /\ orders'[i].paid)
                => /\ last'.view = "payment_complete" /\ last'.method = "POST"
                   /\ Genuine(last')
                   /\ orders[i].razorpay_order_id = last'.order_id
                   /\ i \in last'.writes]_vars

\* A verified callback has saved rows that are now paid, while another row
\* created by a buy-now checkout exists.
C9_Witness ==
    /\ VerifiedCallback /\ last.writes # {}
    /\ \A i \in last.writes : orders[i].paid
    /\ Len(orders) = 2

\* The last delivery of a callback repeats, with the client and the saves
\* working, the triple that settled group g.
Redelivery(g, req) ==
    /\ req.view = "payment_complete" /\ req.method = "POST"
    /\ req.order_id = g
    /\ settled[g].rows # {}
    /\ req.payment_id = settled[g].payment_id
    /\ req.signature = settled[g].signature
    /\ ~req.clientFault /\ ~req.saveFault

C11_NoMutualExclusion ==
    [][\A w \in Workers :
          /\ (/\ callbacks[w].pc = "idle" /\ callbacks'[w].pc # "idle"
              /\ callbacks'[w].signature
                    = HMAC(callbacks'[w].order_id, callbacks'[w].payment_id)
              /\ \E i \in DOMAIN orders :
                    orders[i].razorpay_order_id = callbacks'[w].order_id)
             => callbacks'[w].pc = "select"
          /\ (callbacks[w].pc = "save" /\ callbacks'[w].pc = "done")
             => /\ callbacks'[w].resp = "thankyou.html"
                /\ callbacks'[w].saved = FoundIds(callbacks'[w])
                /\ callbacks'[w].saved # {}
                /\ \A i \in callbacks'[w].saved :
                      /\ orders'[i].paid
                      /\ email(orders'[i].user) # ""
                            => {CustomerEmail(i), CustomerEmailUtil(i)}
                                  \subseteq callbacks'[w].attempts
                /\ \A v \in Workers :
                      (/\ callbacks'[v].pc = "done"
                       /\ callbacks'[v].resp = "thankyou.html"
                       /\ callbacks'[v].order_id = callbacks'[w].order_id)
                      => callbacks'[v].attempts = callbacks'[w].attempts]_vars

\* Two callbacks for one group of two rows were past the signature check
\* before either had saved a row; both saved both rows and both sent the
\* notifications of the group.
C11_Witness ==
    \E w, v \in Workers :
        /\ w # v
        /\ callbacks[w].pc = "done" /\ callbacks[v].pc = "done"
        /\ callbacks[w].resp = "thankyou.html" /\ callbacks[v].resp = "thankyou.html"
        /\ callbacks[w].order_id = callbacks[v].order_id
        /\ callbacks[v].raced
        /\ Cardinality(callbacks[w].saved) = 2
        /\ callbacks[w].saved = callbacks[v].saved
        /\ callbacks[w].attempts # {}
        /\ callbacks[w].attempts = callbacks[v].attempts

\* C12: a settlement that succeeds with the admin address configured, every
\* buyer having an email address and no dispatch failing sends exactly one
\* admin email for the group and exactly one customer email per order.
C12_OneEmailEach ==
    (/\ VerifiedCallback /\ last.resp = "thankyou.html"
     /\ settings.ADMIN_EMAIL /\ last.failed = {}
     /\ \A i \in last.matched : email(orders[i].user) # "")
    => /\ Cardinality(last.attempts \cap AdminEmails) = 1
       /\ \A i \in last.matched :
             Cardinality(last.attempts \cap {CustomerEmail(i), CustomerEmailUtil(i)}) = 1

\* C13: after a callback whose commit saved every row of the group, the
\* requesting buyer's cart holds no item, whatever the metadata fetch and the
\* notifications did.
C13_CartEmptiedAfterCommit ==
    (VerifiedCallback /\ last.writes = last.matched)
    => /\ last.resp = "thankyou.html"
       /\ cartItems[last.user] = <<>>

\* The cart held items when the callback arrived, the metadata fetch and
\* every notification raised, and the cart is empty.
C13_Witness ==
    /\ VerifiedCallback /\ last.writes = last.matched
    /\ last.deleted > 0
    /\ PaymentFetch \in last.failed
    /\ last.attempts # {} /\ last.attempts \subseteq last.failed
    /\ last.mode = "raise"
    /\ cartItems[last.user] = <<>>

\* C14: payment_complete leaves every cart other than the requesting user's
\* as it was, and a callback that ends in the failure view leaves every cart
\* as it was.
C14_OtherCartsUntouched ==
    [][last'.view = "payment_complete"
       => /\ carts' = carts
          /\ \A v \in Users \ {last'.user} : cartItems'[v] = cartItems[v]
          /\ last'.resp = "payment_failed.html" => cartItems' = cartItems]_vars

\* A callback posted from u2's session settled a group while u1's cart held
\* items; u1's cart still holds them.
C14_Witness ==
    /\ VerifiedCallback /\ last.resp = "thankyou.html"
    /\ last.user = "u2"
    /\ cartItems["u1"] # <<>>

\* C15: a request to payment_complete that is not a POST is redirected to the
\* shop and has no effect: no Order row and no cart changes, nothing is looked
\* up or verified, no gateway call fails or succeeds, no notification is
\* attempted.
C15_NonPostHasNoEffect ==
    [][(last'.view = "payment_complete" /\ last'.method # "POST")
       => /\ last'.resp = "redirect:shop"
          /\ orders' = orders
          /\ carts' = carts /\ cartItems' = cartItems
          /\ settled' = settled
          /\ last'.matched = {} /\ last'.writes = {}
          /\ last'.attempts = {} /\ last'.failed = {}
          /\ last'.deleted = 0]_vars

\* A GET reached payment_complete while an unpaid order and a filled cart
\* existed; both are as they were.
C15_Witness ==
    /\ last.view = "payment_complete" /\ last.method = "GET"
    /\ last.resp = "redirect:shop"
    /\ orders # <<>> /\ \A i \in DOMAIN orders : ~orders[i].paid
    /\ cartItems[last.user] # <<>>

RECURSIVE AmountOf(_)
\* The amounts of the given Order rows, added up.
AmountOf(S) ==
    IF S = {} THEN 0
    ELSE LET i == CHOOSE x \in S : TRUE IN orders[i].amount + AmountOf(S \ {i})

\* C16: the success response lists exactly the Order rows that carry the
\* callback's gateway order id and reports as total the sum of their amounts.
C16_SuccessListsGroupAndTotal ==
    (Callback /\ last.resp = "thankyou.html")
    => /\ last.matched = {i \in DOMAIN orders :
                             orders[i].razorpay_order_id = last.order_id}
       /\ last.matched # {}
       /\ last.total_amount = AmountOf(last.matched)

\* A group of two rows of 1500 and 2200 was settled and the response reports 3700.
C16_Witness ==
    /\ Callback /\ last.resp = "thankyou.html"
    /\ \E i, j \in last.matched :
          /\ last.matched = {i, j}
          /\ orders[i].amount = 1500 /\ orders[j].amount = 2200
    /\ last.total_amount = 3700

\* C17: _send_sms never raises: it returns False without contacting the
\* provider when ENABLE_SMS is false, False when a Twilio credential or the
\* sender number is absent, and False when the provider call raises; with the
\* flag false the SMS section of payment_complete attempts no SMS at all.
C17_SmsNeverRaises ==
    /\ dispatch.ran = "_send_sms" =>
          /\ dispatch.result \in {"True", "False"}
          /\ ~dispatch.flag => (dispatch.result = "False" /\ ~dispatch.contacted)
          /\ (~dispatch.creds.sid \/ ~dispatch.creds.token \/ ~dispatch.creds.from_num)
                => dispatch.result = "False"
          /\ dispatch.provider = "raise" => dispatch.result = "False"
    /\ (dispatch.ran = "sms_section" /\ ~dispatch.cfg.ENABLE_SMS) =>
          (dispatch.att = {} /\ ~dispatch.raised)

\* With the flag on and every credential set, the provider was contacted,
\* raised, and _send_sms returned False.
C17_Witness ==
    /\ dispatch.ran = "_send_sms" /\ dispatch.flag
    /\ dispatch.creds = AllCredentials /\ dispatch.provider = "raise"
    /\ dispatch.contacted /\ dispatch.result = "False"

\* C18: with SMS enabled, a settlement attempts a customer SMS for an order of
\* the group exactly when a phone number exists for it: the delivery
\* address's, or without a delivery address the buyer's profile mobile number.
C18_SmsIffPhoneResolvable ==
    (Callback /\ last.resp = "thankyou.html" /\ settings.ENABLE_SMS)
    => \A i \in last.matched :
          CustomerSms(i) \in last.attempts
            <=> \/ orders[i].delivery_address # NoAddress
                \/ mobile_number(orders[i].user) # ""

\* The default Address rows of a buyer.
Defaults(rows, u) == {a \in rows : a.user = u /\ a.is_default}

\* C19: when every add_address, edit_address and delete_address request runs
\* to completion before the next starts, every buyer has at most one default
\* Address row, and a save of a default address has unset every default of
\* its buyer before it writes its row.
C19_OneDefaultPerBuyer ==
    /\ \A u \in Users : Cardinality(Defaults(addresses, u)) <= 1
    /\ \A w \in Workers :
          (saves[w].pc = "write" /\ saves[w].is_default)
            => Defaults(addresses, saves[w].user) = {}

\* A buyer who had a default address has saved a second address as default:
\* the first row is still there and is no longer the default.
C19_Witness ==
    \E w \in Workers, a, b \in addresses :
        /\ saves[w].pc = "done" /\ saves[w].is_default /\ saves[w].id = b.id
        /\ a.user = b.user /\ a.id # b.id
        /\ ~a.is_default /\ b.is_default

\* C20: the write of Address.save sets its own row and leaves every other row
\* as it finds it, so a default written since this save's unset stays a
\* default: two saves of default addresses of one buyer that both ran the
\* unset before either wrote end with two default rows of that buyer.
C20_WriteKeepsOtherDefaults ==
    [][\A w \in Workers :
         (saves[w].pc = "write" /\ saves'[w].pc = "done" /\ saves[w].is_default)
           => /\ Defaults(addresses', saves[w].user)
                    = {a \in Defaults(addresses, saves[w].user) : a.id # saves'[w].id}
                        \cup {[user |-> saves[w].user, id |-> saves'[w].id, is_default |-> TRUE]}
              /\ \A v \in Workers :
                    (/\ v # w /\ saves[v].pc = "done" /\ saves[v].raced /\ saves[w].raced
                     /\ saves[v].user = saves[w].user /\ saves[v].id # saves'[w].id
                     /\ \E a \in Defaults(addresses, saves[w].user) : a.id = saves[v].id)
                      => Cardinality(Defaults(addresses', saves[w].user)) >= 2]_vars

\* Both saves have ended, each ran its unset before the other wrote, and the
\* buyer has two default rows.
C20_Witness ==
    \E w, v \in Workers :
        /\ w # v /\ saves[w].pc = "done" /\ saves[v].pc = "done"
        /\ saves[w].raced /\ saves[v].raced
        /\ saves[w].user = saves[v].user
        /\ Cardinality(Defaults(addresses, saves[w].user)) = 2

\* Each buyer has at most one Cart row, each cart at most one CartItem row
\* per saree, and every CartItem row has quantity 1.
CartRowsWellFormed(cartRows, rows) ==
    /\ \A u \in Users : Cardinality({c \in cartRows : c.user = u}) <= 1
    /\ \A c \in cartRows, s \in Sarees :
          Cardinality({r \in rows : r.cart = c.id /\ r.saree = s}) <= 1
    /\ \A r \in rows : r.quantity = 1

\* C21: whatever the interleaving of add_to_cart and remove_from_cart
\* requests, each buyer has at most one Cart, each cart at most one CartItem
\* per product, every CartItem has quantity 1, and an add_to_cart that
\* reports already-in-cart found the product in the cart and changed no row.
C21_CartRowsUnique ==
    [][/\ CartRowsWellFormed(cartTable', itemTable')
       /\ \A w \in Workers :
             (adds[w].resp = "none" /\ adds'[w].resp = "already_in_cart")
               => /\ cartTable' = cartTable /\ itemTable' = itemTable
                  /\ \E r \in itemTable :
                        r.cart = adds'[w].cart /\ r.saree = adds'[w].saree]_vars

\* Two requests of one buyer for one saree both found no CartItem; the
\* INSERT of the second was refused and it reported already-in-cart, and the
\* cart holds one row for the saree.
C21_Witness ==
    \E w, v \in Workers :
        /\ w # v /\ adds[w].pc = "done" /\ adds[v].pc = "done"
        /\ adds[w].user = adds[v].user /\ adds[w].saree = adds[v].saree
        /\ adds[w].resp = "added"
        /\ adds[v].resp = "already_in_cart" /\ adds[v].via = "create"
        /\ Cardinality({r \in itemTable : r.cart = adds[v].cart /\ r.saree = adds[v].saree}) = 1

\* The views that create Order rows.
CheckoutViews == {"process_buy_now_payment", "process_checkout_payment"}

\* C22: every Order row is created by process_buy_now_payment or
\* process_checkout_payment, unpaid, with the gateway order id the gateway
\* has just allocated and with null payment id and signature; and in every
\* state a row is unpaid exactly when its payment id and signature are null.
C22_CreatedUnpaidAndPaidIffIds ==
    [][/\ \A i \in DOMAIN orders' \ DOMAIN orders :
             /\ last'.view \in CheckoutViews
             /\ ~orders'[i].paid
             /\ orders'[i].razorpay_order_id = nextGatewayOrderId
             /\ orders'[i].razorpay_order_id \in GatewayOrderIds
             /\ nextGatewayOrderId' = nextGatewayOrderId + 1
             /\ orders'[i].razorpay_payment_id = NoPayment
             /\ orders'[i].razorpay_signature = NoSignature
       /\ \A i \in DOMAIN orders' :
             ~orders'[i].paid
               <=> /\ orders'[i].razorpay_payment_id = NoPayment
                   /\ orders'[i].razorpay_signature = NoSignature]_vars

\* A settlement whose second save raised: the first row of the group is paid
\* and carries the callback's ids, the second is as checkout created it.
C22_Witness ==
    \E i, j \in DOMAIN orders :
        /\ orders[i].paid
        /\ orders[i].razorpay_payment_id # NoPayment
        /\ orders[i].razorpay_signature # NoSignature
        /\ ~orders[j].paid
        /\ orders[j].razorpay_order_id \in GatewayOrderIds
        /\ orders[j].razorpay_payment_id = NoPayment
        /\ orders[j].razorpay_signature = NoSignature

\* The rows a step has added to the Order table.
Created == DOMAIN orders' \ DOMAIN orders

\* C23: a process_checkout_payment that reaches the payment page for a cart of
\* k lines allocates one gateway order id and creates exactly k Order rows,
\* one per cart line, owned by the requester, priced as the line's product
\* and carrying that id; a process_buy_now_payment that reaches the payment
\* page creates exactly one row with a gateway order id of its own.
C23_OneRowPerCartLine ==
    [][/\ (last'.view = "process_checkout_payment" /\ last'.resp = "checkout.html")
          => /\ Cardinality(Created) = Len(cartItems[last'.user])
             /\ Created # {}
             /\ nextGatewayOrderId' = nextGatewayOrderId + 1
             /\ last'.order_id = nextGatewayOrderId
             /\ \A i \in Created :
                   /\ orders'[i].user = last'.user
                   /\ orders'[i].razorpay_order_id = nextGatewayOrderId
                   /\ orders'[i].amount = price(orders'[i].saree)
             /\ \A k \in DOMAIN cartItems[last'.user] :
                   Cardinality({i \in Created :
                                  orders'[i].saree = cartItems[last'.user][k]}) = 1
             /\ \A i \in DOMAIN orders : orders'[i] = orders[i]
       /\ (last'.view = "process_buy_now_payment" /\ last'.resp = "payment.html")
          => /\ Cardinality(Created) = 1
             /\ nextGatewayOrderId' = nextGatewayOrderId + 1
             /\ last'.order_id = nextGatewayOrderId
             /\ \A i \in Created :
                   /\ orders'[i].user = last'.user
                   /\ orders'[i].saree = session[last'.user].product_id
                   /\ orders'[i].amount = price(orders'[i].saree)
                   /\ orders'[i].razorpay_order_id = nextGatewayOrderId
             /\ \A i \in DOMAIN orders :
                   orders'[i] = orders[i] /\ orders[i].razorpay_order_id # nextGatewayOrderId]_vars

\* A checkout of a cart of two lines has created the two rows of one group.
C23_Witness ==
    /\ last.view = "process_checkout_payment" /\ last.resp = "checkout.html"
    /\ Len(cartItems[last.user]) = 2
    /\ Len(orders) = 2
    /\ \A i \in DOMAIN orders :
          orders[i].razorpay_order_id = last.order_id /\ orders[i].user = last.user
    /\ orders[1].saree # orders[2].saree

\* C24: payment_complete sets paid only on Order rows whose buyer is the
\* authenticated user who posted the callback.
C24_OnlyOwnRowsPaid ==
    Callback => \A i \in last.writes : orders[i].user = last.user

\* C25: a callback attempts an email or an SMS only after every row its
\* lookup found has been saved as paid; a callback that ends in the failure
\* view, or one of whose saves raised, attempts no notification.
C25_NotifyOnlyAfterCommit ==
    Callback =>
      /\ last.attempts # {}
            => /\ last.matched # {} /\ last.writes = last.matched
               /\ ~last.saveFault
               /\ \A i \in last.matched : orders[i].paid
      /\ (last.resp = "payment_failed.html" \/ last.saveFault) => last.attempts = {}

\* The second save of a group of two raised: one row is written and nothing
\* was sent.
C25_Witness ==
    /\ Callback /\ last.saveFault
    /\ Cardinality(last.matched) = 2 /\ Cardinality(last.writes) = 1
    /\ last.attempts = {}
    /\ settings.ADMIN_EMAIL

\* C26: the amount a checkout has requested from the gateway, in paise, is
\* 100 times the sum of the amounts of the Order rows it created for that
\* gateway order id, also when the buyer's cart changes while it runs.
C26_GatewayAmountMatchesRows ==
    \A w \in Workers :
        checkouts[w].pc = "done"
          => gateway[checkouts[w].order_id]
               = 100 * SumAmounts(orders, Lookup(orders, checkouts[w].order_id))

\* The Address row with this id belongs to this buyer.
AddressOf(rows, u, address_id) ==
    address_id # NoAddress /\ \A a \in rows : a.id = address_id => a.user = u

\* C27: every Order row is created with a delivery address that is a row of
\* the order's own buyer, the address a session holds was the requester's
\* own when it was selected, and no Order row ever references an Address row
\* of another buyer.
C27_OrderAddressIsBuyers ==
    [][/\ \A i \in Created :
             /\ \E a \in addresses : a.id = orders'[i].delivery_address
             /\ AddressOf(addresses, orders'[i].user, orders'[i].delivery_address)
       /\ \A u \in Users :
             (/\ session'[u].selected_address_id # session[u].selected_address_id
              /\ session'[u].selected_address_id # NoAddress)
               => /\ \E a \in addresses : a.id = session'[u].selected_address_id
                  /\ AddressOf(addresses, u, session'[u].selected_address_id)
       /\ \A i \in DOMAIN orders' :
             orders'[i].delivery_address # NoAddress
               => AddressOf(addresses', orders'[i].user, orders'[i].delivery_address)]_vars

\* Buyer u1 has an order delivered to u1's address; u2 has just asked to buy
\* with that address and got a 404.
C27_Witness ==
    /\ last.view = "select_address_buy_now" /\ last.user = "u2"
    /\ last.resp = "error:404"
    /\ session["u2"].selected_address_id = NoAddress
    /\ \E a \in addresses, i \in DOMAIN orders :
          /\ a.user = "u1"
          /\ orders[i].user = "u1" /\ orders[i].delivery_address = a.id

\* C28: Order rows and a gateway order are created only by a checkout view
\* whose session holds a selected address (and a product id for buy-now) and,
\* for the cart checkout, whose cart is not empty; the step that creates them
\* removes the selection from the session; and a checkout request without a
\* selection creates nothing and redirects.
C28_SelectionConsumedOnce ==
    [][/\ (Created # {} \/ nextGatewayOrderId' # nextGatewayOrderId)
          => /\ last'.view \in CheckoutViews
             /\ session[last'.user].selected_address_id # NoAddress
             /\ last'.view = "process_buy_now_payment"
                   => session[last'.user].product_id # NoProduct
             /\ last'.view = "process_checkout_payment"
                   => cartItems[last'.user] # <<>>
             /\ session'[last'.user].selected_address_id = NoAddress
             /\ last'.view = "process_buy_now_payment"
                   => session'[last'.user].product_id = NoProduct
       /\ (/\ last'.view \in CheckoutViews
           /\ session[last'.user].selected_address_id = NoAddress)
          => /\ orders' = orders
             /\ nextGatewayOrderId' = nextGatewayOrderId
             /\ last'.resp \in {"redirect:shop", "redirect:cart"}]_vars

\* A buyer whose checkout created the rows of a cart asks for the checkout
\* again with the cart still filled and is redirected: no row was added.
C28_Witness ==
    /\ last.view = "process_checkout_payment" /\ last.resp = "redirect:cart"
    /\ cartItems[last.user] # <<>>
    /\ session[last.user].selected_address_id = NoAddress
    /\ orders # <<>>
    /\ Len(orders) = Len(cartItems[last.user])
    /\ \A i \in DOMAIN orders : orders[i].user = last.user
    /\ nextGatewayOrderId = 2

====
